---------------------------- MODULE Spec2Model ----------------------------
(***************************************************************************)
(* A model of SpfxProjectUpgradeCommand                                    *)
(* (src/o365/spfx/commands/project/project-upgrade.ts).                    *)
(*                                                                         *)
(* Strings that the code takes apart (version strings) are sequences of    *)
(* one-character strings; other strings are TLA+ strings.  The command is  *)
(* a singleton object (module.exports = new SpfxProjectUpgradeCommand()),  *)
(* so commandAction may run many times on the same instance.               *)
(***************************************************************************)
EXTENDS Naturals, Integers, Sequences, FiniteSets, TLC

(***************************************************************************)
(* Bounds of the model.                                                    *)
(***************************************************************************)
\* Longest supported-version catalog explored (the code's has two entries).
MaxCatalog == 3
\* Number of commandAction invocations made on the one command instance.
MaxInvocations == 2
\* Depth of the working directory below the folder that may hold package.json.
CwdDepth == 1
\* Longest finding list handed to the pure functions (dedupe, getMdReport).
MaxFindings == 3
\* Most documents, .yo-rc.json and package.json aside, missing or malformed
\* in one project.
MaxDamaged == 2

(***************************************************************************)
(* Strings and JavaScript values.                                          *)
(***************************************************************************)
\* JavaScript's undefined, for a value that is otherwise a character sequence.
UNDEFINED == <<"<undefined>">>

\* JavaScript's null, for projectRootPath.
NULL == "<null>"

\* The truthiness test applied to (string | undefined) values:
\* undefined and the empty string are falsy.
Truthy(s) == s # UNDEFINED /\ s # <<>>

Digits == {"0", "1", "2", "3", "4", "5", "6", "7", "8", "9"}

DigitOf == <<"0", "1", "2", "3", "4", "5", "6", "7", "8", "9">>

\* coreLibVersion.replace(/[^0-9\.]/g, ''): drops every character that is
\* neither a digit nor a dot.
StripNonNumeric(s) == SelectSeq(s, LAMBDA c : c \in Digits \cup {"."})

\* Array.prototype.indexOf, 0-based, -1 when absent.
RECURSIVE IndexFrom(_, _, _)
IndexFrom(seq, x, i) ==
  IF i > Len(seq) THEN -1
  ELSE IF seq[i] = x THEN i - 1
  ELSE IndexFrom(seq, x, i + 1)

indexOf(seq, x) == IndexFrom(seq, x, 1)

\* Array.prototype.slice(begin), 0-based begin.
slice(seq, begin) == SubSeq(seq, begin + 1, Len(seq))

\* Array.prototype.reverse.
reverse(seq) == [i \in 1..Len(seq) |-> seq[Len(seq) + 1 - i]]

(***************************************************************************)
(* The supported-version catalog.                                          *)
(***************************************************************************)
\* "1.4.1", "1.5.0", and the entries a longer catalog goes on with:
\* "1.6.0", "1.7.0", ...
VersionAt(n) ==
  IF n = 1 THEN <<"1", ".", "4", ".", "1">>
  ELSE <<"1", ".", DigitOf[n + 4], ".", "0">>

\* The catalog of the code is the one of length 2.
CatalogOfLength(n) == [i \in 1..n |-> VersionAt(i)]

Catalogs == {CatalogOfLength(n) : n \in 2..MaxCatalog}

\* Version strings that no catalog holds.
OlderVersion == <<"1", ".", "3", ".", "0">>

NewerVersion == <<"2", ".", "0", ".", "0">>

(***************************************************************************)
(* The project on disk.  A document is missing, malformed (JSON.parse      *)
(* throws), commented (valid JSON once its single-line comments are        *)
(* removed) or ok (valid JSON).  ver is the one value the command itself   *)
(* reads from a document: the generator version of .yo-rc.json, the        *)
(* @microsoft/sp-core-library dependency of package.json.                  *)
(***************************************************************************)
DocNames ==
  { "config/config.json", "config/copy-assets.json",
    "config/deploy-azure-storage.json", "package.json",
    "config/package-solution.json", "config/serve.json", "tsconfig.json",
    "config/tslint.json", "config/write-manifests.json", ".yo-rc.json" }

VersionDocs == {".yo-rc.json", "package.json"}

Doc(st, ver) == [st |-> st, ver |-> ver]

\* fs.existsSync(path)
existsSync(doc) == doc.st # "missing"

\* Utils.removeSingleLineComments applied to the text of a document.
removeSingleLineComments(doc) ==
  IF doc.st = "commented" THEN [doc EXCEPT !.st = "ok"] ELSE doc

\* Whether JSON.parse(fs.readFileSync(path)) returns rather than throws.
Parses(doc) == doc.st = "ok"

\* A slot of Project: unset, or the parsed document.
Unset == [set |-> FALSE, ver |-> UNDEFINED]

Mutant_ReadDocument(doc) ==
  IF existsSync(doc) THEN [set |-> TRUE, ver |-> doc.ver] ELSE Unset

\* One "if (fs.existsSync(p)) { try { project.x = JSON.parse(...) } catch { } }"
\* block of getProject.
ReadDocument(doc) ==
  IF existsSync(doc) /\ Parses(removeSingleLineComments(doc))
  THEN [set |-> TRUE, ver |-> doc.ver]
  ELSE Unset

\* Utils.getAllFiles(<root>/src): the files under src, in the order of the walk.
getAllFiles(disk) == disk.src

\* The files.forEach of getProject: every *.manifest.json that parses is
\* pushed, annotated with its path (here: its place in the walk).
RECURSIVE ReadManifests(_, _)
ReadManifests(files, i) ==
  IF i > Len(files) THEN <<>>
  ELSE IF files[i].manifest /\ Parses(removeSingleLineComments(files[i]))
       THEN <<[path |-> i]>> \o ReadManifests(files, i + 1)
       ELSE ReadManifests(files, i + 1)

getProject(disk, projectRootPath) ==
  [ path |-> projectRootPath,
    slots |-> [d \in DocNames |-> ReadDocument(disk.docs[d])],
    manifests |-> ReadManifests(getAllFiles(disk), 1) ]

\* No project was collected.
NoProject == [path |-> NULL, slots |-> [d \in DocNames |-> Unset], manifests |-> <<>>]

\* getProjectRoot(folderPath): a folder is its depth below the folder that
\* may hold package.json (depth 0); the parent of depth 0 is itself.
RECURSIVE getProjectRoot(_, _)
getProjectRoot(folderPath, disk) ==
  IF folderPath = 0 /\ existsSync(disk.docs["package.json"]) THEN "/project"
  ELSE IF folderPath > 0 THEN getProjectRoot(folderPath - 1, disk)
  ELSE NULL

\* getProjectVersion: the generator version of .yo-rc.json, else the
\* core-library dependency of package.json with its non-numeric characters
\* removed.  Neither read removes comments before JSON.parse.
getProjectVersion(disk) ==
  LET yoRc == disk.docs[".yo-rc.json"]
      packageJson == disk.docs["package.json"]
  IN IF existsSync(yoRc) /\ Parses(yoRc) /\ Truthy(yoRc.ver) THEN yoRc.ver
     ELSE IF existsSync(packageJson) /\ Parses(packageJson) /\ Truthy(packageJson.ver)
          THEN StripNonNumeric(packageJson.ver)
          ELSE UNDEFINED

(***************************************************************************)
(* Findings and rule catalogs.                                             *)
(***************************************************************************)
Ids == {"FN001", "FN002"}

\* A Finding.  title, description and severity are fixed by the rule (id).
Finding(id, file, resolutionType, resolution) ==
  [ id |-> id, title |-> <<"title of", id>>, description |-> <<"description of", id>>,
    severity |-> "Required", file |-> file, resolutionType |-> resolutionType,
    resolution |-> resolution ]

\* A rule: the id of the finding it reports, and whether it reports it for
\* every project or only for a project that has component manifests.
Rule(id, always) == [id |-> id, always |-> always]

\* What require(`./project-upgrade/upgrade-${v}`) and the visit of its rules
\* do for one version: the module is found or not; its rules are visited in
\* order; with throws, the rule after those throws.
RuleCatalog(found, rules, throws) == [found |-> found, rules |-> rules, throws |-> throws]

NoCatalog == RuleCatalog(FALSE, <<>>, FALSE)

RuleCatalogs ==
  { NoCatalog,
    RuleCatalog(TRUE, <<Rule("FN001", TRUE)>>, FALSE),
    RuleCatalog(TRUE, <<Rule("FN001", FALSE)>>, FALSE),
    RuleCatalog(TRUE, <<Rule("FN002", FALSE)>>, FALSE),
    RuleCatalog(TRUE, <<Rule("FN001", TRUE)>>, TRUE) }

\* Whether the rule finds something to report in the project.
Applies(rule, project) == rule.always \/ project.manifests # <<>>

\* The finding rule k of the catalog of version v appends: odd rules ask
\* for a command, even rules for an edit of config/config.json; the
\* resolution text is the rule's own.
RuleFinding(v, k, id) ==
  IF k % 2 = 1
  THEN Finding(id, "./package.json", "cmd", [catalog |-> v, rule |-> k])
  ELSE Finding(id, "./config/config.json", "json", [catalog |-> v, rule |-> k])

\* r.visit(project, this.allFindings) for every rule of the catalog of v.
RECURSIVE VisitRules(_, _, _, _)
VisitRules(v, rules, project, k) ==
  IF k > Len(rules) THEN <<>>
  ELSE (IF Applies(rules[k], project) THEN <<RuleFinding(v, k, rules[k].id)>> ELSE <<>>)
       \o VisitRules(v, rules, project, k + 1)

RuleFindings(v, catalog, project) == VisitRules(v, catalog.rules, project, 1)

(***************************************************************************)
(* dedupe                                                                  *)
(***************************************************************************)
\* Array.prototype.findIndex(f1 => f1.id === id), 0-based, -1 when absent.
RECURSIVE FindIndexFrom(_, _, _)
FindIndexFrom(findings, id, i) ==
  IF i > Len(findings) THEN -1
  ELSE IF findings[i].id = id THEN i - 1
  ELSE FindIndexFrom(findings, id, i + 1)

findIndex(findings, id) == FindIndexFrom(findings, id, 1)

\* The last index holding id (what a findLastIndex would return).
RECURSIVE FindLastIndexFrom(_, _, _)
FindLastIndexFrom(findings, id, i) ==
  IF i < 1 THEN -1
  ELSE IF findings[i].id = id THEN i - 1
  ELSE FindLastIndexFrom(findings, id, i - 1)

RECURSIVE KeepLast(_, _)
KeepLast(allFindings, i) ==
  IF i > Len(allFindings) THEN <<>>
  ELSE IF i - 1 = FindLastIndexFrom(allFindings, allFindings[i].id, Len(allFindings))
       THEN <<allFindings[i]>> \o KeepLast(allFindings, i + 1)
       ELSE KeepLast(allFindings, i + 1)

Mutant_dedupe(allFindings) == KeepLast(allFindings, 1)

\* this.allFindings.filter((f, i) => i === this.allFindings.findIndex(f1 => f1.id === f.id))
RECURSIVE KeepFirst(_, _)
KeepFirst(allFindings, i) ==
  IF i > Len(allFindings) THEN <<>>
  ELSE IF i - 1 = findIndex(allFindings, allFindings[i].id)
       THEN <<allFindings[i]>> \o KeepFirst(allFindings, i + 1)
       ELSE KeepFirst(allFindings, i + 1)

dedupe(allFindings) == KeepFirst(allFindings, 1)

(***************************************************************************)
(* getMdReport                                                             *)
(***************************************************************************)
\* Property keys that are array indices: Object.keys lists them first, in
\* ascending numeric order, whatever the order they were set in.
IsArrayIndex(key) == key \in Digits

IndexValue(key) == CHOOSE n \in 0..9 : DigitOf[n + 1] = key

\* The keys of modificationPerFile in the order they were first set.
RECURSIVE InsertionOrder(_, _)
InsertionOrder(findings, i) ==
  IF i > Len(findings) THEN <<>>
  ELSE LET rest == InsertionOrder(findings, i + 1)
           f == findings[i]
       IN IF f.resolutionType = "cmd" THEN rest
          ELSE <<f.file>> \o SelectSeq(rest, LAMBDA k : k # f.file)

\* Ascending order of a duplicate-free sequence of array-index keys.
RECURSIVE SortIndices(_)
SortIndices(keys) ==
  IF keys = <<>> THEN <<>>
  ELSE LET least == CHOOSE k \in {keys[i] : i \in 1..Len(keys)} :
                      \A j \in 1..Len(keys) : IndexValue(k) <= IndexValue(keys[j])
       IN <<least>> \o SortIndices(SelectSeq(keys, LAMBDA k : k # least))

\* Object.keys(modificationPerFile), modificationPerFile being an Array
\* used as a dictionary.
ObjectKeys(inserted) ==
  SortIndices(SelectSeq(inserted, IsArrayIndex))
    \o SelectSeq(inserted, LAMBDA k : ~IsArrayIndex(k))

\* First element of findings, from i on, that is an edit of file.
RECURSIVE FirstTypeOf(_, _, _)
FirstTypeOf(findings, file, i) ==
  IF findings[i].resolutionType # "cmd" /\ findings[i].file = file
  THEN findings[i].resolutionType
  ELSE FirstTypeOf(findings, file, i + 1)

\* The block of the "Findings" section of one finding.
FindingBlock(f) ==
  [ heading |-> <<f.id, f.title, f.severity>>,
    description |-> f.description,
    resolution |->
      IF f.resolutionType = "cmd" THEN <<"Execute the following command:", "sh", f.resolution>>
      ELSE IF f.resolutionType = "json"
           THEN <<"In file", f.file, "update the code as follows:", "json", f.resolution>>
           ELSE <<>>,
    file |-> f.file ]

\* getMdReport(findings): the document as its parts, in document order (the
\* date line is left out).  commands is commandsToExecute; files is the
\* "Modify files" section, one entry per key of modificationPerFile.
getMdReport(findings, projectRootPath, toVersion) ==
  LET commandsToExecute ==
        LET cmds == SelectSeq(findings, LAMBDA f : f.resolutionType = "cmd")
        IN [i \in 1..Len(cmds) |-> cmds[i].resolution]
      modificationPerFile(file) ==
        LET edits == SelectSeq(findings,
                       LAMBDA f : f.resolutionType # "cmd" /\ f.file = file)
        IN [i \in 1..Len(edits) |-> edits[i].resolution]
      keys == ObjectKeys(InsertionOrder(findings, 1))
  IN [ title |-> <<"Upgrade project", projectRootPath, "to v", toVersion>>,
       findings |-> [i \in 1..Len(findings) |-> FindingBlock(findings[i])],
       commands |-> commandsToExecute,
       files |-> [i \in 1..Len(keys) |->
                   [ file |-> keys[i],
                     type |-> FirstTypeOf(findings, keys[i], 1),
                     modifications |-> modificationPerFile(keys[i]) ]] ]

\* findings.map(f => ({ id: f.id, resolution: f.resolution }))
Summary(findings) ==
  [i \in 1..Len(findings) |-> [id |-> findings[i].id, resolution |-> findings[i].resolution]]

(***************************************************************************)
(* commandAction                                                           *)
(***************************************************************************)
\* The forEach over versionsToUpgradeTo.  The return of the catch block
\* leaves the callback of forEach, not commandAction: the next version is
\* visited all the same.
RECURSIVE VisitVersions(_, _, _, _, _)
VisitVersions(versionsToUpgradeTo, i, rulesOf, project, acc) ==
  IF i > Len(versionsToUpgradeTo) THEN acc
  ELSE LET v == versionsToUpgradeTo[i]
           rules == rulesOf[v]
       IN VisitVersions(versionsToUpgradeTo, i + 1, rulesOf, project,
            [ allFindings |-> IF rules.found
                              THEN acc.allFindings \o RuleFindings(v, rules, project)
                              ELSE acc.allFindings,
              cb |-> IF ~rules.found \/ rules.throws
                     THEN Append(acc.cb, "RuleCatalogError")
                     ELSE acc.cb,
              required |-> Append(acc.required, v) ])

\* this.supportedVersions.slice(pos + 1).reverse()
VersionsToUpgradeTo(catalog, pos) == reverse(slice(catalog, pos + 1))

\* args.options.toVersion ? args.options.toVersion : <last of supportedVersions>
TargetVersion(catalog, options) ==
  IF Truthy(options.toVersion) THEN options.toVersion ELSE catalog[Len(catalog)]

Mutant_Report(findings, options, self) ==
  IF options.output = "json" THEN [kind |-> "json", body |-> findings]
  ELSE IF options.output = "md"
       THEN [kind |-> "md",
             body |-> getMdReport(findings, self.projectRootPath, self.toVersion)]
       ELSE [kind |-> "summary", body |-> findings]

\* The switch on args.options.output.
Report(findings, options, self) ==
  IF options.output = "json" THEN [kind |-> "json", body |-> findings]
  ELSE IF options.output = "md"
       THEN [kind |-> "md",
             body |-> getMdReport(findings, self.projectRootPath, self.toVersion)]
       ELSE [kind |-> "summary", body |-> Summary(findings)]

\* An early "cb(new CommandError(...)); return;".
Fail(self, error) ==
  [ self |-> self, log |-> <<>>, cb |-> <<error>>, project |-> NoProject,
    required |-> <<>> ]

Mutant_PlanError(pos, posTo) ==
  IF pos < 0 THEN "UnsupportedCurrent"
  ELSE IF pos >= posTo THEN "Downgrade"
  ELSE "none"

\* The three checks on pos, the place of projectVersion in the catalog,
\* against the place of toVersion: the error reported, or "none".
PlanError(pos, posTo) ==
  IF pos < 0 THEN "UnsupportedCurrent"
  ELSE IF pos > posTo THEN "Downgrade"
  ELSE IF pos = posTo THEN "NoUpgradeNeeded"
  ELSE "none"

\* The end of commandAction: dedupe, the report, cb().
Finish(self, options, project, visited) ==
  [ self |-> self,
    log |-> Append(
              (IF options.verbose
               THEN <<[kind |-> "progress", body |-> "Collecting project..."]>>
               ELSE <<>>)
              \o (IF options.debug
                  THEN <<[kind |-> "progress", body |-> "Collected project"],
                         [kind |-> "project", body |-> project]>>
                  ELSE <<>>),
              Report(dedupe(self.allFindings), options, self)),
    cb |-> Append(visited.cb, "ok"),
    project |-> project,
    required |-> visited.required ]

\* commandAction from getProject on: the project is collected, the rule
\* catalogs of versionsToUpgradeTo are visited, the report is logged.
Upgrade(self, options, rulesOf, project, versionsToUpgradeTo) ==
  LET visited == VisitVersions(versionsToUpgradeTo, 1, rulesOf, project,
                   [allFindings |-> self.allFindings, cb |-> <<>>, required |-> <<>>])
  IN Finish([self EXCEPT !.allFindings = visited.allFindings], options, project, visited)

\* commandAction(cmd, args, cb) on the instance self (its fields), with
\* the disk and the rule modules as they are: the fields afterwards, what
\* was passed to cmd.log and to cb, in order, the project collected and the
\* versions whose rule catalog was required.
commandAction(self, catalog, options, disk, rulesOf) ==
  LET root == getProjectRoot(CwdDepth, disk)
      s1 == [self EXCEPT !.projectRootPath = root]
      s2 == [s1 EXCEPT !.toVersion = TargetVersion(catalog, options)]
      s3 == [s2 EXCEPT !.projectVersion = getProjectVersion(disk)]
      pos == indexOf(catalog, s3.projectVersion)
      posTo == indexOf(catalog, s2.toVersion)
  IN IF root = NULL THEN Fail(s1, "NoProjectRoot")
     ELSE IF posTo < 0 THEN Fail(s2, "UnsupportedTarget")
     ELSE IF ~Truthy(s3.projectVersion) THEN Fail(s3, "UndeterminedVersion")
     ELSE IF PlanError(pos, posTo) # "none" THEN Fail(s3, PlanError(pos, posTo))
     ELSE Upgrade(s3, options, rulesOf, getProject(disk, root),
                  VersionsToUpgradeTo(catalog, pos))

(***************************************************************************)
(* The state machine: one command instance, the disk and the rule modules  *)
(* it runs against, and what its last invocation did.                      *)
(***************************************************************************)
VARIABLES
  supportedVersions,  \* this.supportedVersions
  allFindings,        \* this.allFindings
  toVersion,          \* this.toVersion
  projectVersion,     \* this.projectVersion
  projectRootPath,    \* this.projectRootPath
  disk,               \* the documents and src files around process.cwd()
  modules,            \* what ./project-upgrade/upgrade-<v> holds, per version
  invocations,        \* number of commandAction calls made so far
  pc,                 \* "prompt": waiting for a command; "ran": a call has returned
  args,               \* args.options (and verbose/debug) of the last call
  log,                \* what the last call passed to cmd.log, in order
  cbCalls,            \* what the last call passed to cb, in order
  project,            \* the Project the last call collected
  required,           \* the versions whose rules the last call required
  input,              \* the finding list handed to a pure function
  output              \* what the pure function returned

vars ==
  << supportedVersions, allFindings, toVersion, projectVersion, projectRootPath,
     disk, modules, invocations, pc, args, log, cbCalls, project, required,
     input, output >>

Range(seq) == {seq[i] : i \in 1..Len(seq)}

Self == [ allFindings |-> allFindings, toVersion |-> toVersion,
          projectVersion |-> projectVersion, projectRootPath |-> projectRootPath ]

\* A new instance: the field initialisers of the class.
NewSelf == [ allFindings |-> <<>>, toVersion |-> <<>>,
             projectVersion |-> UNDEFINED, projectRootPath |-> NULL ]

Options(to, out, verbose, debug) ==
  [toVersion |-> to, output |-> out, verbose |-> verbose, debug |-> debug]

\* The options a call may come with: --toVersion absent, a catalog entry
\* or a version the catalog does not hold, with the default output; each
\* output type with the default target; --debug (which switches verbose on
\* too).
OptionsFor(catalog) ==
  { Options(to, "<absent>", FALSE, FALSE) :
      to \in {UNDEFINED, NewerVersion} \cup Range(catalog) }
  \cup { Options(UNDEFINED, out, FALSE, FALSE) : out \in {"json", "text", "md"} }
  \cup { Options(UNDEFINED, "<absent>", TRUE, TRUE) }

NoOptions == Options(UNDEFINED, "<absent>", FALSE, FALSE)

PlainDoc == Doc("ok", UNDEFINED)

Latest == <<"l", "a", "t", "e", "s", "t">>

DiskWith(yoRc, packageJson, src) ==
  [ docs |-> [d \in DocNames |->
                IF d = ".yo-rc.json" THEN yoRc
                ELSE IF d = "package.json" THEN packageJson
                ELSE PlainDoc],
    src |-> src ]

ManifestFile(st) == [manifest |-> TRUE, st |-> st, ver |-> UNDEFINED]

OtherFile == [manifest |-> FALSE, st |-> "ok", ver |-> UNDEFINED]

\* The projects the command is run in: no package.json up to the root of
\* the file system; no .yo-rc.json, a "~<version>" dependency and no
\* component yet; nothing to tell the version by; generated at a catalog
\* version or at an older one.
ProjectsOnDisk(catalog) ==
  { DiskWith(Doc("missing", UNDEFINED), Doc("missing", UNDEFINED), <<>>),
    DiskWith(Doc("missing", UNDEFINED), Doc("ok", <<"~">> \o catalog[1]), <<>>),
    DiskWith(Doc("malformed", UNDEFINED), Doc("ok", Latest), <<ManifestFile("ok")>>) }
  \cup { DiskWith(Doc("ok", v), PlainDoc, <<ManifestFile("ok")>>) :
           v \in Range(catalog) \cup {OlderVersion} }

\* Whether requiring the module or visiting its rules throws.
Throws(rules) == ~rules.found \/ rules.throws

\* The rule modules present: none for the oldest catalog entry (nothing
\* upgrades to it), and at most one of the others is missing or broken.
ModulesFor(catalog) ==
  { m \in [Range(catalog) -> RuleCatalogs] :
      /\ m[catalog[1]] = NoCatalog
      /\ Cardinality({i \in 2..Len(catalog) : Throws(m[catalog[i]])}) <= 1 }

NoCall ==
  /\ args = NoOptions
  /\ log = <<>>
  /\ cbCalls = <<>>
  /\ project = NoProject
  /\ required = <<>>

Init ==
  /\ supportedVersions \in Catalogs
  /\ allFindings = NewSelf.allFindings
  /\ toVersion = NewSelf.toVersion
  /\ projectVersion = NewSelf.projectVersion
  /\ projectRootPath = NewSelf.projectRootPath
  /\ disk \in ProjectsOnDisk(supportedVersions)
  /\ modules \in ModulesFor(supportedVersions)
  /\ invocations = 0
  /\ pc = "prompt"
  /\ NoCall
  /\ input = <<>>
  /\ output = <<>>

\* The user moves to another project (or the project changes on disk)
\* between two runs of the command.
ChangeProject ==
  /\ pc = "prompt"
  /\ invocations < MaxInvocations
  /\ disk' \in ProjectsOnDisk(supportedVersions) \ {disk}
  /\ UNCHANGED << supportedVersions, allFindings, toVersion, projectVersion,
                  projectRootPath, modules, invocations, pc, args, log, cbCalls,
                  project, required, input, output >>

\* One run of commandAction with the given options.
Invoke(options) ==
  \E r \in {commandAction(Self, supportedVersions, options, disk, modules)} :
     /\ allFindings' = r.self.allFindings
     /\ toVersion' = r.self.toVersion
     /\ projectVersion' = r.self.projectVersion
     /\ projectRootPath' = r.self.projectRootPath
     /\ args' = options
     /\ log' = r.log
     /\ cbCalls' = r.cb
     /\ project' = r.project
     /\ required' = r.required

CommandAction ==
  /\ pc = "prompt"
  /\ invocations < MaxInvocations
  /\ \E options \in OptionsFor(supportedVersions) : Invoke(options)
  /\ invocations' = invocations + 1
  /\ pc' = "ran"
  /\ UNCHANGED << supportedVersions, disk, modules, input, output >>

\* The host is back at its prompt: what the call logged and called back
\* is gone, the instance and its fields stay.
Prompt ==
  /\ pc = "ran"
  /\ pc' = "prompt"
  /\ args' = NoOptions
  /\ log' = <<>>
  /\ cbCalls' = <<>>
  /\ project' = NoProject
  /\ required' = <<>>
  /\ UNCHANGED << supportedVersions, allFindings, toVersion, projectVersion,
                  projectRootPath, disk, modules, invocations, input, output >>

Next == ChangeProject \/ CommandAction \/ Prompt

Spec == Init /\ [][Next]_vars

(***************************************************************************)
(* What the last call was given and what it did.                           *)
(***************************************************************************)
Ran == pc = "ran"

RootFound == existsSync(disk.docs["package.json"])

\* The version the project on disk is detected to be at.
Current == getProjectVersion(disk)

\* The version asked for: --toVersion, or the newest catalog entry.
Target ==
  IF args.toVersion # UNDEFINED THEN args.toVersion
  ELSE supportedVersions[Len(supportedVersions)]

Supported(v) == \E i \in 1..Len(supportedVersions) : supportedVersions[i] = v

\* 1-based place of a supported version in the catalog.
Position(v) == CHOOSE i \in 1..Len(supportedVersions) : supportedVersions[i] = v

\* The call was one for a project at a supported version that precedes the
\* supported target.
ValidUpgrade ==
  /\ Ran /\ RootFound
  /\ Supported(Current) /\ Supported(Target)
  /\ Position(Current) < Position(Target)

\* The catalog entries after Current up to and including Target, newest first.
PlannedPath ==
  [i \in 1..(Position(Target) - Position(Current)) |->
     supportedVersions[Position(Target) + 1 - i]]

\* The reports among what the call logged.
Reports == SelectSeq(log, LAMBDA e : e.kind \in {"json", "md", "summary"})

\* The call ended the way an early return does: one error, nothing else.
FailedWith(error) ==
  /\ cbCalls = <<error>>
  /\ log = <<>>
  /\ project = NoProject
  /\ required = <<>>

(***************************************************************************)
(* C1: for a project at a supported version that precedes the supported    *)
(* target, the versions whose rule catalogs are loaded are exactly the     *)
(* catalog entries after the current one up to and including the target,   *)
(* newest first; no catalog of a version later than the target is loaded.  *)
(***************************************************************************)
C1_LoadsPlannedPath == ValidUpgrade => required = PlannedPath

(***************************************************************************)
(* C2: when requiring a rule catalog or visiting a rule throws, the call   *)
(* aborts: the failing version is the last one required, no report is      *)
(* logged and the error is all that is passed to the callback.             *)
(***************************************************************************)
C2_AbortsOnCatalogError ==
  (Ran /\ \E i \in 1..Len(required) : Throws(modules[required[i]]))
    => /\ Reports = <<>>
       /\ cbCalls = <<"RuleCatalogError">>
       /\ \A i \in 1..(Len(required) - 1) : ~Throws(modules[required[i]])

(***************************************************************************)
(* C4: with the target defaulting to the newest catalog entry, the call    *)
(* fails with the unsupported-target error when the target is not in the   *)
(* catalog; otherwise with the unsupported-current error when the detected *)
(* version is not in it; otherwise with the downgrade error when the       *)
(* current version comes after the target, and with the no-upgrade-needed  *)
(* error when they are equal.  In each case no project is collected, no    *)
(* rule catalog is required and nothing is logged.                         *)
(***************************************************************************)
C4_PlanningErrors ==
  (Ran /\ RootFound) =>
    /\ toVersion = Target
    /\ ~Supported(Target) => FailedWith("UnsupportedTarget")
    /\ (Supported(Target) /\ Truthy(Current) /\ ~Supported(Current))
         => FailedWith("UnsupportedCurrent")
    /\ (Supported(Target) /\ Supported(Current) /\ Position(Current) > Position(Target))
         => FailedWith("Downgrade")
    /\ (Supported(Target) /\ Supported(Current) /\ Position(Current) = Position(Target))
         => FailedWith("NoUpgradeNeeded")

\* A downgrade asked for with --toVersion on an instance that has already
\* reported findings.
C4_Witness ==
  /\ Ran /\ args.toVersion # UNDEFINED
  /\ cbCalls = <<"Downgrade">>
  /\ allFindings # <<>>

(***************************************************************************)
(* C5: when the rule catalogs of two versions of the planned path report   *)
(* the same finding id for the project, the finding with that id in the    *)
(* report is the one of the catalog of the later version.                  *)
(***************************************************************************)
\* The catalog of version v reports id for the project the call collected.
Emits(v, id) ==
  /\ modules[v].found
  /\ \E k \in 1..Len(modules[v].rules) :
        modules[v].rules[k].id = id /\ Applies(modules[v].rules[k], project)

C5_LaterCatalogWins ==
  (ValidUpgrade /\ Reports # <<>> /\ Reports[1].kind \in {"json", "summary"}) =>
    \A id \in Ids :
      \A i, j \in 1..Len(PlannedPath) :
        (i < j /\ Emits(PlannedPath[i], id) /\ Emits(PlannedPath[j], id)
           /\ \A h \in 1..(i - 1) : ~Emits(PlannedPath[h], id))
          => \E n \in 1..Len(Reports[1].body) :
                /\ Reports[1].body[n].id = id
                /\ Reports[1].body[n].resolution.catalog = PlannedPath[i]
                /\ \A m \in 1..Len(Reports[1].body) :
                      Reports[1].body[m].id = id => m = n

(***************************************************************************)
(* C6: every call passes to the callback exactly once: no error, and then  *)
(* a report has been logged, or an error, and then none has.               *)
(***************************************************************************)
C6_CallbackOnce ==
  Ran => /\ Len(cbCalls) = 1
         /\ cbCalls[1] = "ok" <=> Reports # <<>>

(***************************************************************************)
(* C7: the output option selects the report: "json" logs the deduplicated  *)
(* findings as they are, "md" the narrative document, "text" or no option  *)
(* the summary: one record per deduplicated finding, in the same order,    *)
(* holding its id and resolution only; for no finding at all the summary   *)
(* is the empty list and the call still ends without error.                *)
(***************************************************************************)
C7_ReportShape ==
  (Ran /\ cbCalls # <<>> /\ cbCalls[Len(cbCalls)] = "ok") =>
    /\ Len(Reports) = 1
    /\ LET report == Reports[1]
           kept == dedupe(allFindings)
       IN /\ args.output = "json" => report.kind = "json" /\ report.body = kept
          /\ args.output = "md" =>
               /\ report.kind = "md"
               /\ Len(report.body.findings) = Len(kept)
               /\ \A i \in 1..Len(kept) : report.body.findings[i].heading[1] = kept[i].id
          /\ args.output \in {"text", "<absent>"} =>
               /\ report.kind = "summary"
               /\ Len(report.body) = Len(kept)
               /\ \A i \in 1..Len(kept) :
                     /\ DOMAIN report.body[i] = {"id", "resolution"}
                     /\ report.body[i].id = kept[i].id
                     /\ report.body[i].resolution = kept[i].resolution

\* A summary of two findings asked for with --output text.
C7_Witness ==
  /\ Ran /\ args.output = "text" /\ cbCalls = <<"ok">>
  /\ Len(Reports) = 1 /\ Reports[1].kind = "summary" /\ Len(Reports[1].body) = 2

(***************************************************************************)
(* C10: what a call logs is what a new instance would log for the same     *)
(* project, options and rule catalogs.                                     *)
(***************************************************************************)
C10_ReportAsFresh ==
  Ran => log = commandAction(NewSelf, supportedVersions, args, disk, modules).log

(***************************************************************************)
(* dedupe on its own: every finding list up to MaxFindings long over two   *)
(* ids, two findings per id.                                               *)
(***************************************************************************)
\* All sequences over S of length at most n.
SeqsUpTo(S, n) == UNION {[1..k -> S] : k \in 0..n}

DedupeFindings ==
  { Finding(id, "./package.json", "cmd", [catalog |-> VersionAt(2), rule |-> k]) :
      id \in Ids, k \in {1, 2} }

\* The variables no pure function touches: a new instance of the command
\* of the code, nothing on disk, no call made.
Idle ==
  /\ supportedVersions = CatalogOfLength(2)
  /\ allFindings = NewSelf.allFindings
  /\ toVersion = NewSelf.toVersion
  /\ projectVersion = NewSelf.projectVersion
  /\ projectRootPath = NewSelf.projectRootPath
  /\ disk = DiskWith(Doc("missing", UNDEFINED), Doc("missing", UNDEFINED), <<>>)
  /\ modules = [v \in Range(CatalogOfLength(2)) |-> NoCatalog]
  /\ invocations = 0
  /\ NoCall

InitDedupe ==
  /\ Idle
  /\ pc = "input"
  /\ input \in SeqsUpTo(DedupeFindings, MaxFindings)
  /\ output = <<>>

Dedupe ==
  /\ pc = "input"
  /\ output' = dedupe(input)
  /\ pc' = "deduped"
  /\ UNCHANGED << supportedVersions, allFindings, toVersion, projectVersion,
                  projectRootPath, disk, modules, invocations, args, log, cbCalls,
                  project, required, input >>

SpecDedupe == InitDedupe /\ [][Dedupe]_vars

\* The place of the earliest finding of input with this id.
FirstOf(id) ==
  CHOOSE i \in 1..Len(input) :
    input[i].id = id /\ \A j \in 1..(i - 1) : input[j].id # id

(***************************************************************************)
(* C3: the deduplicated list holds exactly one finding per id of the       *)
(* input, the earliest one with that id, and the findings kept are in the  *)
(* order they have in the input.                                           *)
(***************************************************************************)
C3_DedupeKeepsFirst ==
  pc = "deduped" =>
    /\ {output[n].id : n \in 1..Len(output)} = {input[i].id : i \in 1..Len(input)}
    /\ \A n, m \in 1..Len(output) : output[n].id = output[m].id => n = m
    /\ \A n \in 1..Len(output) : output[n] = input[FirstOf(output[n].id)]
    /\ \A n, m \in 1..Len(output) :
          n < m => FirstOf(output[n].id) < FirstOf(output[m].id)

\* Three findings, the first and the last with the same id and different
\* resolutions: two are kept.
C3_Witness ==
  /\ pc = "deduped"
  /\ Len(input) = 3 /\ input[1].id = input[3].id /\ input[1] # input[3]
  /\ input[2].id # input[1].id
  /\ Len(output) = 2

(***************************************************************************)
(* getMdReport on its own: every list of up to MaxFindings findings with   *)
(* ids of their own, each a command or an edit of one of four files.       *)
(***************************************************************************)
EditedFiles == {"./config/config.json", "./tsconfig.json", "0", "1"}

IdAt == <<"FN001", "FN002", "FN003", "FN004", "FN005">>

\* What tells the findings of a list apart from their place in it.
Shapes ==
  {[resolutionType |-> "cmd", file |-> "./package.json"]}
    \cup {[resolutionType |-> "json", file |-> f] : f \in EditedFiles}

FindingsOfShapes(shapes) ==
  [i \in 1..Len(shapes) |->
     Finding(IdAt[i], shapes[i].file, shapes[i].resolutionType,
             [catalog |-> VersionAt(2), rule |-> i])]

InitMd ==
  /\ Idle
  /\ pc = "input"
  /\ input \in {FindingsOfShapes(shapes) : shapes \in SeqsUpTo(Shapes, MaxFindings)}
  /\ output = <<>>

MdReport ==
  /\ pc = "input"
  /\ output' = getMdReport(input, "/project", VersionAt(2))
  /\ pc' = "reported"
  /\ UNCHANGED << supportedVersions, allFindings, toVersion, projectVersion,
                  projectRootPath, disk, modules, invocations, args, log, cbCalls,
                  project, required, input >>

SpecMd == InitMd /\ [][MdReport]_vars

\* The place of the first edit of this file in input.
FirstEditOf(file) ==
  CHOOSE i \in 1..Len(input) :
    /\ input[i].resolutionType # "cmd" /\ input[i].file = file
    /\ \A j \in 1..(i - 1) : ~(input[j].resolutionType # "cmd" /\ input[j].file = file)

\* The resolutions of the findings of input that satisfy Test, in order.
ResolutionsOf(Test(_)) ==
  LET kept == SelectSeq(input, Test)
  IN [i \in 1..Len(kept) |-> kept[i].resolution]

(***************************************************************************)
(* C8: in the narrative report, "Modify files" lists the files of the      *)
(* edit findings in the order each file first appears in the finding list, *)
(* with under each file its resolutions in finding order, and "Execute     *)
(* script" holds every command resolution once, in finding order.          *)
(***************************************************************************)
C8_FileOrder ==
  pc = "reported" =>
    /\ {output.files[n].file : n \in 1..Len(output.files)}
         = {input[i].file : i \in {j \in 1..Len(input) : input[j].resolutionType # "cmd"}}
    /\ \A n, m \in 1..Len(output.files) :
          n < m => FirstEditOf(output.files[n].file) < FirstEditOf(output.files[m].file)
    /\ \A n \in 1..Len(output.files) :
          output.files[n].modifications
            = ResolutionsOf(LAMBDA f : f.resolutionType # "cmd"
                                        /\ f.file = output.files[n].file)
    /\ output.commands = ResolutionsOf(LAMBDA f : f.resolutionType = "cmd")

(***************************************************************************)
(* The command run once in every project of a folder tree: up to          *)
(* MaxDamaged of the eight documents the command does not read itself are  *)
(* missing or malformed; .yo-rc.json and package.json are missing,         *)
(* malformed, with comments, well-formed, or well-formed without the       *)
(* version; src is empty, or holds a malformed and a well-formed manifest.  *)
(***************************************************************************)
PlainStates == {"missing", "malformed", "ok"}

VersionDocStates(ver) ==
  { Doc("missing", UNDEFINED), Doc("malformed", UNDEFINED), Doc("commented", ver),
    Doc("ok", ver), Doc("ok", UNDEFINED) }

SrcTrees == { <<>>, <<OtherFile, ManifestFile("malformed"), ManifestFile("ok")>> }

AllDisks ==
  { [ docs |-> [d \in DocNames |->
                  IF d = ".yo-rc.json" THEN yoRc
                  ELSE IF d = "package.json" THEN packageJson
                  ELSE Doc(plain[d], UNDEFINED)],
      src |-> src ] :
      plain \in { f \in [DocNames \ VersionDocs -> PlainStates] :
                    Cardinality({d \in DocNames \ VersionDocs : f[d] # "ok"})
                      <= MaxDamaged },
      yoRc \in VersionDocStates(VersionAt(1)),
      packageJson \in VersionDocStates(<<"^">> \o VersionAt(1)),
      src \in SrcTrees }

InitProject ==
  /\ supportedVersions = CatalogOfLength(2)
  /\ allFindings = NewSelf.allFindings
  /\ toVersion = NewSelf.toVersion
  /\ projectVersion = NewSelf.projectVersion
  /\ projectRootPath = NewSelf.projectRootPath
  /\ disk \in AllDisks
  /\ modules = [v \in Range(CatalogOfLength(2)) |->
                  IF v = VersionAt(1) THEN NoCatalog
                  ELSE RuleCatalog(TRUE, <<Rule("FN001", TRUE), Rule("FN002", FALSE)>>, FALSE)]
  /\ invocations = 0
  /\ pc = "prompt"
  /\ NoCall
  /\ input = <<>>
  /\ output = <<>>

\* The command run with no option.
CommandActionOnce ==
  /\ pc = "prompt"
  /\ invocations = 0
  /\ Invoke(NoOptions)
  /\ invocations' = 1
  /\ pc' = "ran"
  /\ UNCHANGED << supportedVersions, disk, modules, input, output >>

SpecProject == InitProject /\ [][CommandActionOnce]_vars

\* JSON.parse gives the document as it is on disk.
StrictlyReadable(d) == disk.docs[d].st = "ok"

\* The document is on disk and is JSON once its comments are removed.
Readable(d) == disk.docs[d].st \in {"ok", "commented"}

\* The documents the version is read from are either not readable or hold it.
VersionDocsComplete ==
  \A d \in VersionDocs : StrictlyReadable(d) => Truthy(disk.docs[d].ver)

\* One of the two documents gives the version to JSON.parse as it is.
VersionReadable ==
  \E d \in VersionDocs : StrictlyReadable(d) /\ Truthy(disk.docs[d].ver)

\* The manifests under src that are JSON once their comments are removed.
ReadableManifests ==
  {i \in 1..Len(disk.src) : disk.src[i].manifest /\ disk.src[i].st \in {"ok", "commented"}}

\* The project collected holds exactly what is readable on disk.
ProjectAsOnDisk ==
  /\ project.path # NULL
  /\ \A d \in DocNames : project.slots[d].set <=> Readable(d)
  /\ {project.manifests[i].path : i \in 1..Len(project.manifests)} = ReadableManifests
  /\ Len(project.manifests) = Cardinality(ReadableManifests)

(***************************************************************************)
(* C9 as claimed: under a project root, whatever documents are missing or  *)
(* malformed, no error surfaces: the project collected holds exactly the   *)
(* documents that exist and parse, and a report is logged.                 *)
(***************************************************************************)
C9_NeverAborts ==
  (Ran /\ RootFound /\ VersionDocsComplete) =>
    /\ cbCalls = <<"ok">>
    /\ Reports # <<>>
    /\ ProjectAsOnDisk

(***************************************************************************)
(* C9 as amended: under a project root, when .yo-rc.json or package.json   *)
(* is strict JSON that gives the version, no other missing or malformed    *)
(* document surfaces an error: the project collected holds exactly the     *)
(* documents that exist and parse once their comments are removed, and a   *)
(* report is logged; when neither does, the call fails with the            *)
(* undetermined-version error and collects nothing.                        *)
(***************************************************************************)
C9_AbsorbsDocumentErrors ==
  (Ran /\ RootFound) =>
    IF VersionReadable
    THEN /\ cbCalls = <<"ok">>
         /\ Len(Reports) = 1
         /\ ProjectAsOnDisk
    ELSE FailedWith("UndeterminedVersion")

\* A report for a project whose tsconfig.json is malformed, whose
\* config/config.json is missing and whose .yo-rc.json has comments.
C9_Witness ==
  /\ Ran /\ cbCalls = <<"ok">> /\ Reports # <<>>
  /\ disk.docs["tsconfig.json"].st = "malformed"
  /\ disk.docs["config/config.json"].st = "missing"
  /\ disk.docs[".yo-rc.json"].st = "commented"
  /\ ~project.slots["tsconfig.json"].set
  /\ project.slots[".yo-rc.json"].set
  /\ Len(disk.src) = 3 /\ Len(project.manifests) = 1

=============================================================================
